---- MODULE Spec2Model ----
(***************************************************************************)
(* localservice: lifecycle controller of the MySQL, PostgreSQL and MinIO   *)
(* services (src/library/mysql.js, src/library/minio.js, the PostgreSQL    *)
(* service in src/unnamed/part_002) over the docker gateway of             *)
(* src/library/util.js.                                                    *)
(*                                                                         *)
(* One lifecycle operation is one asynchronous task.  Every action below   *)
(* is one executeDocker call of that task together with the synchronous    *)
(* code that follows it up to the next executeDocker call; between two     *)
(* calls the task is suspended and the container runtime can be changed by *)
(* the service booting inside the container or by somebody else's docker   *)
(* command.                                                                *)
(***************************************************************************)
EXTENDS Integers, Sequences, FiniteSets, TLC

\* ------------------------------------------------------------------ bounds
\* largest configured *_SERVICE_WAIT_MAX_RETRIES explored
MaxRetries == 3
\* number of seed files the configured globs can resolve to
NumFiles == 2
\* docker commands issued by somebody else during the run
MaxExternal == 1
\* command line arguments the user typed after the script name
MaxArgs == 2

\* ------------------------------------------------------- program constants
Services == {"mysql", "postgres", "minio"}

\* the value of *_CONTAINER_NAME
Name == "db1"

\* the keys of this.env that matter to the control flow
EnvKeys == {"CONTAINER_NAME", "EXPOSED_PORT", "IMAGE", "PUSH_FILES"}

\* required: true / required: false of the env table
Required(k) == k \in {"CONTAINER_NAME", "EXPOSED_PORT", "IMAGE"}

\* defaultValue of the env table is not undefined
HasDefault(k) == k = "EXPOSED_PORT"

\* Object.keys(env), in the order the constructor writes them
KeyOrder == <<"CONTAINER_NAME", "EXPOSED_PORT", "IMAGE", "PUSH_FILES">>

\* another container whose name has the configured name as a prefix
SiblingName == "db1-old"

Files == 1 .. NumFiles

VARIABLES
  svc,          \* the service the instance was built for
  env,          \* env[k] = TRUE iff this.env[k].value is non-empty
  maxRetries,   \* this.env.*_SERVICE_WAIT_MAX_RETRIES.value
  container,    \* runtime: "ABSENT", "STOPPED" or "RUNNING"
  volume,       \* runtime: the named volume exists
  ready,        \* runtime: the service inside the container accepts clients
  ext,          \* docker commands somebody else may still issue
  op,           \* the lifecycle operation the CLI invoked, "none" when idle
  inner,        \* the method executing (remove calls stop)
  pc,           \* the executeDocker call the task is suspended before
  result,       \* "pending", "ok", "false" or the error the task rejected with
  errAt,        \* the pc at which the error was raised
  log,          \* the executeDocker calls of this operation, in issue order
  count,        \* _waitUntilServiceIsReady: count
  attempts,     \* calls of _isServiceReady made by the wait
  sleeps,       \* calls of sleep() made by the wait
  firstReady,   \* the attempt at which _isServiceReady first returned true
  waited,       \* "no", "ok" (the wait returned true) or "failed"
  resolved,     \* _seedDatabase: the paths findFilePaths returned
  bad,          \* the resolved files whose execution the client would reject
  missing,      \* the keys the 'Missing required environment variables' error names
  sibling,      \* runtime: a container named db1-old is running as well
  penv,         \* penv[k] = TRUE iff process.env holds a non-empty value for k
  exitCode,     \* status the process exits with, -1 while the task is pending
  printed,      \* the message execute wrote with console.error, "" if none
  argv,         \* process.argv
  args,         \* the copy of process.argv handed to program.parse
  warned,       \* the deprecation warning was printed
  seen,         \* history: the id earlier operations last got from the runtime
  partial,      \* history: a create failed after its run command ("stuck"),
                \*   and the container was removed since ("removed")
  step,         \* history: operations of create, stop, start, remove that
                \*   succeeded in a row on a runtime honouring every command
  leftover      \* history: a remove failed at its volume rm command

\* what no action of a lifecycle operation changes
cfgVars == <<svc, env, maxRetries, sibling, penv, argv, args, warned>>
\* what is known of the operations that finished before
histVars == <<seen, partial, step, leftover>>
\* how the process of the current operation ends
exitVars == <<exitCode, printed>>
rtVars == <<container, volume, ready>>
waitVars == <<count, attempts, sleeps, firstReady, waited>>
seedVars == <<resolved, bad>>
vars == <<svc, env, maxRetries, container, volume, ready, ext, op, inner, pc,
          result, errAt, log, count, attempts, sleeps, firstReady, waited,
          resolved, bad, missing, sibling, penv, exitCode, printed, argv,
          args, warned, seen, partial, step, leftover>>

\* ---------------------------------------------------- the container runtime
\* A response of dockerCommand: it rejects (threw) or yields raw output.
Threw == [threw |-> TRUE, raw |-> ""]

Out(text) == [threw |-> FALSE, raw |-> text]

\* what the runtime holds after a command
After(resp, c, v, r) == [resp |-> resp, c |-> c, v |-> v, r |-> r]

Same(resp) == After(resp, container, volume, ready)

\* a command that succeeded prints the name, possibly with other text
Echoes == {Out(Name), Out("unexpected")}

\* client health output per service
ReadyText(s) == IF s = "mysql" THEN "Uptime: 5" ELSE "accepting connections"

NotReadyText(s) == IF s = "mysql" THEN "Uptime: 0" ELSE "no response"

\* the output of the list of running names, one name per line
RunningNames ==
  IF container = "RUNNING"
    THEN IF sibling THEN "db1-old\ndb1" ELSE Name
    ELSE IF sibling THEN SiblingName ELSE ""

\* The outcomes the runtime can produce for a command in its current state.
\* Any command may fail (the daemon is unreachable, the client errors).
Runtime(cmd) ==
  {Same(Threw)} \cup
  CASE cmd = "ps_id" ->
         {Same(Out(IF container = "ABSENT" THEN "" ELSE "id1"))}
    [] cmd = "ps_names" -> {Same(Out(RunningNames))}
    [] cmd = "run" ->
         IF container = "ABSENT"
           THEN {After(Out("id1"), "RUNNING", TRUE, FALSE)}
           ELSE {}
    [] cmd = "start" ->
         IF container = "STOPPED"
           THEN {After(o, "RUNNING", volume, FALSE) : o \in Echoes}
           ELSE IF container = "RUNNING" THEN {Same(o) : o \in Echoes} ELSE {}
    [] cmd = "stop" ->
         IF container = "RUNNING"
           THEN {After(o, "STOPPED", volume, FALSE) : o \in Echoes}
           ELSE IF container = "STOPPED" THEN {Same(o) : o \in Echoes} ELSE {}
    [] cmd = "rm" ->
         IF container = "STOPPED"
           THEN {After(o, "ABSENT", volume, FALSE) : o \in Echoes}
           ELSE {}
    [] cmd = "volume_rm" ->
         IF volume /\ container = "ABSENT"
           THEN {After(o, container, FALSE, ready) : o \in Echoes}
           ELSE {}
    [] cmd = "exec_status" ->
         IF container = "RUNNING"
           THEN {Same(Out(IF ready THEN ReadyText(svc) ELSE NotReadyText(svc)))}
           ELSE {}
    [] cmd \in {"exec_root", "exec_createdb"} ->
         IF container = "RUNNING" /\ ready THEN {Same(Out(""))} ELSE {}

\* ------------------------------------------------------------ util.js
\* verifyEnvironment that throws at the first missing key
RECURSIVE FirstMissing(_, _)
FirstMissing(keys, e) ==
  IF keys = <<>> THEN <<>>
  ELSE IF Required(Head(keys)) /\ ~e[Head(keys)] THEN <<Head(keys)>>
  ELSE FirstMissing(Tail(keys), e)

\* verifyEnvironment that looks at the value only, not at required
RECURSIVE EveryEmpty(_, _)
EveryEmpty(keys, e) ==
  IF keys = <<>> THEN <<>>
  ELSE (IF ~e[Head(keys)] THEN <<Head(keys)>> ELSE <<>>)
         \o EveryEmpty(Tail(keys), e)

\* verifyEnvironment: Object.keys(env).forEach pushes every key that is
\* required and has no value onto missing, in key order
RECURSIVE MissingKeys(_, _)
MissingKeys(keys, e) ==
  IF keys = <<>> THEN <<>>
  ELSE (IF Required(Head(keys)) /\ ~e[Head(keys)] THEN <<Head(keys)>> ELSE <<>>)
         \o MissingKeys(Tail(keys), e)

\* verifyEnvironment: the keys the error names; it throws iff there is one
verifyEnvironment(e) == MissingKeys(KeyOrder, e)

\* getContainerId: the trimmed output of the filtered list query
getContainerId(resp) == resp.raw

\* result.split('\n')
Lines(raw) ==
  IF raw = "db1-old\ndb1" THEN <<SiblingName, Name>> ELSE <<raw>>

\* a is the beginning of b
StartsWith(b, a) == a = b \/ (a = Name /\ b = SiblingName)

\* isContainerRunning that tests the names with startsWith
isContainerRunning_prefix(resp, name) ==
  \E i \in 1 .. Len(Lines(resp.raw)) : StartsWith(Lines(resp.raw)[i], name)

\* isContainerRunning: containerNames.includes(containerName)
isContainerRunning(resp, name) ==
  \E i \in 1 .. Len(Lines(resp.raw)) : Lines(resp.raw)[i] = name

\* truthiness of a string
Truthy(s) == s # ""

\* ------------------------------------------- decisions of the controllers
\* a wait that retries without counting
NextCount_stuck(cnt) == cnt

\* _waitUntilServiceIsReady: count += 1
NextCount(cnt) == cnt + 1

\* a probe that issues the health command whatever the running query said
ProbeSkipsExec_never(containerRunning) == FALSE

\* _isServiceReady: if (!containerRunning) return false
ProbeSkipsExec(containerRunning) == ~containerRunning

\* create without its existence guard
CreateRejects_never(containerId) == FALSE

\* create: if (containerId) throw 'already exists'
CreateRejects(containerId) == Truthy(containerId)

\* an absent container is never noticed
Missing_never(containerId) == FALSE

\* start, stop, remove, push, _isServiceReady: if (!containerId) throw
Missing(containerId) == ~Truthy(containerId)

\* start that refuses every container
StartRejects_always(containerRunning) == TRUE

\* start without its 'already running' guard
StartRejects_never(containerRunning) == FALSE

\* start: if (containerRunning) throw 'already running'
StartRejects(containerRunning) == containerRunning

\* stop without its 'not running' guard
StopRejects_never(containerRunning) == FALSE

\* stop: if (!containerRunning) throw 'not running'
StopRejects(containerRunning) == ~containerRunning

\* push without its 'not running' guard
PushRejects_never(containerRunning) == FALSE

\* push: if (!containerRunning) throw 'not running'
PushRejects(containerRunning) == ~containerRunning

\* MinIO push that validates and looks the container up like the others
PushImplemented_all(s) == TRUE

\* push: MinIO logs 'Push is not implemented' and returns false
PushImplemented(s) == s # "minio"

\* info written as: return printInfo(...)
InfoAwaitsPrint_returned == TRUE

\* info: printInfo(...) is called without await and without return
InfoAwaitsPrint == FALSE

\* info: MinIOService has config and status but no info method
HasInfo(s) == s # "minio"

\* the returned identifier is not compared with the name
Echoed_always(resp) == TRUE

\* start, stop, remove: containerName !== this.env.*_CONTAINER_NAME.value
Echoed(resp) == resp.raw = Name

\* remove that never stops the container first
StopsFirst_never(containerRunning) == FALSE

\* remove: if (containerRunning) await this.stop()
StopsFirst(containerRunning) == containerRunning

\* what mysqladmin status and pg_isready print
HealthTexts ==
  {"", "Uptime: 0", "Uptime: 5", "Uptime: 0  Threads: 1",
   "Uptime: 5  Threads: 1", "accepting connections",
   "/tmp:5432 - accepting connections", "/tmp:5432 - rejecting connections",
   "no response"}

Tok(t, n) == [t |-> t, n |-> n]

\* the pieces of a text the two parsers tell apart: the literal 'Uptime: ',
\* a run of digits (with its value), the literal 'accepting connections',
\* a line break, any other text
Tokens(text) ==
  CASE text = "" -> <<>>
    [] text = "Uptime: 0" -> <<Tok("Uptime: ", 0), Tok("digits", 0)>>
    [] text = "Uptime: 5" -> <<Tok("Uptime: ", 0), Tok("digits", 5)>>
    [] text = "Uptime: 0  Threads: 1" ->
         <<Tok("Uptime: ", 0), Tok("digits", 0), Tok("other", 0),
           Tok("digits", 1)>>
    [] text = "Uptime: 5  Threads: 1" ->
         <<Tok("Uptime: ", 0), Tok("digits", 5), Tok("other", 0),
           Tok("digits", 1)>>
    [] text = "accepting connections" ->
         <<Tok("accepting connections", 0)>>
    [] text = "/tmp:5432 - accepting connections" ->
         <<Tok("other", 0), Tok("digits", 5432), Tok("other", 0),
           Tok("accepting connections", 0)>>
    [] text = "/tmp:5432 - rejecting connections" ->
         <<Tok("other", 0), Tok("digits", 5432), Tok("other", 0)>>
    [] OTHER -> <<Tok("other", 0)>>

\* /^Uptime: (\d+).*$/ matches: the text begins with 'Uptime: ' and digits
\* and has no line break after them
MatchesUptime(k) ==
  /\ Len(k) >= 2
  /\ k[1].t = "Uptime: "
  /\ k[2].t = "digits"
  /\ \A i \in 3 .. Len(k) : k[i].t # "newline"

\* parseInt(string, 10): the leading digits, -1 (for NaN) if there are none
ParseInt(k) == IF Len(k) >= 1 /\ k[1].t = "digits" THEN k[1].n ELSE -1

\* parseInt(result.replace(/^Uptime: (\d+).*$/, '$1'), 10): a text the
\* pattern matches is replaced by its digits, any other text is parsed as is
ParseUptime(text) ==
  IF MatchesUptime(Tokens(text))
    THEN ParseInt(<<Tokens(text)[2]>>)
    ELSE ParseInt(Tokens(text))

\* /accepting connections/.test(result)
AcceptingConnections(text) ==
  \E i \in 1 .. Len(Tokens(text)) : Tokens(text)[i].t = "accepting connections"

\* a probe that takes either marker as ready
IsReadyOutput_either(s, text) ==
  (Truthy(text) /\ ParseUptime(text) > 0) \/ AcceptingConnections(text)

\* _isServiceReady: what the health output of the client means
IsReadyOutput(s, text) ==
  IF s = "mysql" THEN Truthy(text) /\ ParseUptime(text) > 0
                 ELSE AcceptingConnections(text)

\* verifyEnvironment found nothing, whatever the env
EnvOk_always == TRUE

\* the health command without its try/catch
CaughtAsNotReady_never == FALSE

\* _isServiceReady: try { ... } catch (err) { return false; }
CaughtAsNotReady == TRUE

\* while (count <= MAX_RETRIES)
LoopContinues_inclusive(cnt, max) == cnt <= max

\* _waitUntilServiceIsReady: while (count < MAX_RETRIES)
LoopContinues(cnt, max) == cnt < max

\* sleep() called before isReady is looked at
SleepsAfter_always(isReady) == 1

\* _waitUntilServiceIsReady: sleep() is called only after a failed attempt
SleepsAfter(isReady) == IF isReady THEN 0 ELSE 1

\* create whose setup begins with the database
FirstSetup_createdb(s) == "exec_createdb"

\* create: the setup command that follows the wait
FirstSetup(s) == IF s = "mysql" THEN "exec_root" ELSE "exec_createdb"

\* create that goes from the run command straight to the setup
AfterRun_nowait(s) == IF s = "minio" THEN "resolve" ELSE "setup"

\* create, after the run command: MinIO returns the new id, MySQL and
\* PostgreSQL await this._waitUntilServiceIsReady() before the setup
AfterRun(s) == IF s = "minio" THEN "resolve" ELSE "wait"

\* _seedDatabase builds an array of functions and hands it to Promise.all,
\* which awaits promises and passes every other value through: the
\* functions are never called.
ThunksInvoked == FALSE

\* _seedDatabase (MySQL only): if (!sqlFilePaths.length) throw
ChecksEmpty(s) == s = "mysql"

\* a value that prefers nothing to the default
Value_envonly(k, p) == IF p[k] THEN "env" ELSE "undefined"

\* constructor: value: process.env.KEY || default, with undefined for a key
\* that has no default
Value(k, p) ==
  IF p[k] THEN "env" ELSE IF HasDefault(k) THEN "default" ELSE "undefined"

\* an id kept on the instance and reused by the next operation
ContainerIdOf_cached(fresh, earlier) ==
  IF earlier = "none" THEN fresh ELSE earlier

\* const containerId = await getContainerId(...): a local of the method,
\* nothing an earlier operation got is read
ContainerIdOf(fresh, earlier) == fresh

\* remove that issues the stop command itself
NestedStopEntry_direct == "stop"

\* remove: await this.stop() runs stop from its first statement
NestedStopEntry == "getId"

\* execute that swallows the rejection
ExitStatus_zero(rejected) == 0

\* execute: .catch((err) => { console.error(err.message); process.exit(1); })
\* and the exit of a process whose task resolved
ExitStatus(rejected) == IF rejected THEN 1 ELSE 0

\* a rejection nobody handles: a warning and status 0 on older node, an
\* uncaught exception and status 1 on node 15 and later
UnhandledExit == {0, 1}

\* ------------------------------------------------------------ bookkeeping
Entry(cmd, arg, resp) ==
  [cmd |-> cmd, arg |-> arg, threw |-> resp.threw, raw |-> resp.raw]

Issued(cmd, o) ==
  /\ container' = o.c
  /\ volume' = o.v
  /\ ready' = o.r
  /\ log' = Append(log, Entry(cmd, 0, o.resp))

Reject(msg, at) ==
  /\ pc' = "done"
  /\ result' = msg
  /\ errAt' = at
  /\ exitCode' = ExitStatus(TRUE)
  /\ printed' = msg
  /\ missing' = (IF msg = "missing env" THEN verifyEnvironment(env) ELSE <<>>)

Resolve(val) ==
  /\ pc' = "done"
  /\ result' = val
  /\ errAt' = ""
  /\ missing' = <<>>
  /\ exitCode' = ExitStatus(FALSE)
  /\ printed' = ""

Goto(l) == pc' = l /\ UNCHANGED <<result, errAt, missing, exitVars>>

EnvOk == Len(verifyEnvironment(env)) = 0

\* after the wait returned true: create runs the setup, push seeds
AfterWait == IF op = "create" THEN FirstSetup(svc) ELSE "seed"

\* head of the while loop of _waitUntilServiceIsReady
LoopHead(cnt, slp) ==
  /\ count' = cnt
  /\ sleeps' = slp
  /\ IF LoopContinues(cnt, maxRetries)
       THEN /\ attempts' = attempts + 1
            /\ waited' = waited
            /\ Goto("probe_getId")
       ELSE /\ attempts' = attempts
            /\ waited' = "failed"
            /\ Reject("timeout", "wait")

\* _waitUntilServiceIsReady entered: let count = 0
EnterWait ==
  /\ firstReady' = firstReady
  /\ LoopHead(0, 0)

\* isReady = await this._isServiceReady(); if (isReady) return true;
\* count += 1; await sleep();
AttemptReturns(isReady) ==
  IF isReady
    THEN /\ firstReady' = attempts
         /\ waited' = "ok"
         /\ sleeps' = sleeps + SleepsAfter(TRUE)
         /\ UNCHANGED <<count, attempts>>
         /\ Goto(AfterWait)
    ELSE /\ firstReady' = firstReady
         /\ LoopHead(NextCount(count), sleeps + SleepsAfter(FALSE))

\* _isServiceReady threw: the wait and the operation reject with it
WaitThrows(msg) ==
  /\ waited' = "failed"
  /\ UNCHANGED <<count, attempts, sleeps, firstReady>>
  /\ Reject(msg, pc)

\* ---------------------------------------------------------------- Init
Init ==
  /\ svc \in Services
  /\ penv \in [EnvKeys -> BOOLEAN]
  /\ env = [k \in EnvKeys |-> Value(k, penv) # "undefined"]
  /\ maxRetries \in 0 .. MaxRetries
  /\ container = "ABSENT"
  /\ volume = FALSE
  /\ ready = FALSE
  /\ ext = MaxExternal
  /\ op = "none"
  /\ inner = "none"
  /\ pc = "idle"
  /\ result = "pending"
  /\ errAt = ""
  /\ log = <<>>
  /\ count = 0
  /\ attempts = 0
  /\ sleeps = 0
  /\ firstReady = 0
  /\ waited = "no"
  /\ resolved = {}
  /\ bad = {}
  /\ missing = <<>>
  /\ sibling \in BOOLEAN
  /\ exitCode = -1
  /\ printed = ""
  /\ argv = <<>>
  /\ args = <<>>
  /\ warned = FALSE
  /\ seen = "none"
  /\ partial = "no"
  /\ step = 0
  /\ leftover = FALSE

Operations == {"create", "start", "stop", "remove", "push", "info"}

\* execute(serviceName, commandName): localService.service[commandName]()
Begin(o) ==
  /\ pc = "idle"
  /\ op' = o
  /\ inner' = o
  /\ o = "info" => HasInfo(svc)
  /\ IF o = "push" /\ ~PushImplemented(svc)
       THEN Resolve("false")
     ELSE IF o = "info"
       THEN /\ pc' = "info_getId"
            /\ result' = "ok"
            /\ UNCHANGED <<errAt, missing, exitVars>>
     ELSE Goto("getId")
  /\ UNCHANGED <<cfgVars, histVars, rtVars, ext, log, waitVars, seedVars>>

\* verifyEnvironment and getContainerId at the head of create, start, stop,
\* remove and push, and what each does with the id
GetId ==
  /\ pc = "getId"
  /\ IF ~EnvOk
       THEN Reject("missing env", "verify") /\ UNCHANGED <<rtVars, log>>
       ELSE \E o \in Runtime("ps_id") :
              /\ Issued("ps_id", o)
              /\ IF o.resp.threw
                   THEN Reject("docker error", pc)
                   ELSE IF inner = "create"
                     THEN IF CreateRejects(ContainerIdOf(getContainerId(o.resp),
                                                         seen))
                            THEN Reject("already exists", pc)
                            ELSE Goto("run")
                     ELSE IF Missing(ContainerIdOf(getContainerId(o.resp),
                                                   seen))
                            THEN Reject("does not exist", pc)
                            ELSE Goto("isRunning")
  /\ UNCHANGED <<cfgVars, histVars, ext, op, inner, waitVars, seedVars>>

\* isContainerRunning in start, stop, remove and push
IsRunning ==
  /\ pc = "isRunning"
  /\ \E o \in Runtime("ps_names") :
       /\ Issued("ps_names", o)
       /\ IF o.resp.threw
            THEN Reject("docker error", pc) /\ UNCHANGED <<inner, waitVars>>
            ELSE LET running == isContainerRunning(o.resp, Name) IN
              CASE inner = "start" ->
                     /\ IF StartRejects(running)
                          THEN Reject("already running", pc)
                          ELSE Goto("start")
                     /\ UNCHANGED <<inner, waitVars>>
                [] inner = "stop" ->
                     /\ IF StopRejects(running)
                          THEN Reject("not running", pc)
                          ELSE Goto("stop")
                     /\ UNCHANGED <<inner, waitVars>>
                [] inner = "remove" ->
                     /\ IF StopsFirst(running)
                          THEN inner' = "stop" /\ Goto(NestedStopEntry)
                          ELSE inner' = inner /\ Goto("rm")
                     /\ UNCHANGED waitVars
                [] inner = "push" ->
                     /\ IF PushRejects(running)
                          THEN Reject("not running", pc) /\ UNCHANGED waitVars
                          ELSE EnterWait
                     /\ UNCHANGED inner
  /\ UNCHANGED <<cfgVars, histVars, ext, op, seedVars>>

\* create: the run command
Run ==
  /\ pc = "run"
  /\ \E o \in Runtime("run") :
       /\ Issued("run", o)
       /\ IF o.resp.threw
            THEN Reject("docker error", pc) /\ UNCHANGED waitVars
            ELSE CASE AfterRun(svc) = "resolve" ->
                        Resolve("ok") /\ UNCHANGED waitVars
                   [] AfterRun(svc) = "wait" -> EnterWait
                   [] OTHER -> Goto(FirstSetup(svc)) /\ UNCHANGED waitVars
  /\ UNCHANGED <<cfgVars, histVars, ext, op, inner, seedVars>>

\* start: the container start command
Start ==
  /\ pc = "start"
  /\ \E o \in Runtime("start") :
       /\ Issued("start", o)
       /\ IF o.resp.threw THEN Reject("docker error", pc)
          ELSE IF ~Echoed(o.resp) THEN Reject("failed to start", pc)
          ELSE Resolve("ok")
  /\ UNCHANGED <<cfgVars, histVars, ext, op, inner, waitVars, seedVars>>

\* stop: the container stop command; remove continues after its own stop
Stop ==
  /\ pc = "stop"
  /\ \E o \in Runtime("stop") :
       /\ Issued("stop", o)
       /\ IF o.resp.threw
            THEN Reject("docker error", pc) /\ UNCHANGED inner
          ELSE IF ~Echoed(o.resp)
            THEN Reject("failed to stop", pc) /\ UNCHANGED inner
          ELSE IF op = "remove"
            THEN inner' = "remove" /\ Goto("rm")
            ELSE Resolve("ok") /\ UNCHANGED inner
  /\ UNCHANGED <<cfgVars, histVars, ext, op, waitVars, seedVars>>

\* remove: the container rm command
RemoveContainer ==
  /\ pc = "rm"
  /\ \E o \in Runtime("rm") :
       /\ Issued("rm", o)
       /\ IF o.resp.threw THEN Reject("docker error", pc)
          ELSE IF ~Echoed(o.resp)
            THEN Reject("failed to remove container", pc)
          ELSE Goto("volume_rm")
  /\ UNCHANGED <<cfgVars, histVars, ext, op, inner, waitVars, seedVars>>

\* remove: the volume rm command
RemoveVolume ==
  /\ pc = "volume_rm"
  /\ \E o \in Runtime("volume_rm") :
       /\ Issued("volume_rm", o)
       /\ IF o.resp.threw THEN Reject("docker error", pc)
          ELSE IF ~Echoed(o.resp)
            THEN Reject("failed to remove volume", pc)
          ELSE Resolve("ok")
  /\ UNCHANGED <<cfgVars, histVars, ext, op, inner, waitVars, seedVars>>

\* _isServiceReady: verifyEnvironment and getContainerId
ProbeGetId ==
  /\ pc = "probe_getId"
  /\ IF ~EnvOk
       THEN WaitThrows("missing env") /\ UNCHANGED <<rtVars, log>>
       ELSE \E o \in Runtime("ps_id") :
              /\ Issued("ps_id", o)
              /\ IF o.resp.threw THEN WaitThrows("docker error")
                 ELSE IF Missing(getContainerId(o.resp))
                   THEN WaitThrows("does not exist")
                 ELSE Goto("probe_isRunning") /\ UNCHANGED waitVars
  /\ UNCHANGED <<cfgVars, histVars, ext, op, inner, seedVars>>

\* _isServiceReady: isContainerRunning; a stopped container is not ready
ProbeIsRunning ==
  /\ pc = "probe_isRunning"
  /\ \E o \in Runtime("ps_names") :
       /\ Issued("ps_names", o)
       /\ IF o.resp.threw THEN WaitThrows("docker error")
          ELSE IF ProbeSkipsExec(isContainerRunning(o.resp, Name))
            THEN AttemptReturns(FALSE)
          ELSE Goto("probe_exec") /\ UNCHANGED waitVars
  /\ UNCHANGED <<cfgVars, histVars, ext, op, inner, seedVars>>

\* _isServiceReady: the health command of the client inside the container
ProbeExec ==
  /\ pc = "probe_exec"
  /\ \E o \in Runtime("exec_status") :
       /\ Issued("exec_status", o)
       /\ IF o.resp.threw
            THEN IF CaughtAsNotReady THEN AttemptReturns(FALSE)
                                     ELSE WaitThrows("docker error")
            ELSE AttemptReturns(IsReadyOutput(svc, o.resp.raw))
  /\ UNCHANGED <<cfgVars, histVars, ext, op, inner, seedVars>>

\* _prepareRootUser (MySQL)
PrepareRootUser ==
  /\ pc = "exec_root"
  /\ IF ~EnvOk
       THEN Reject("missing env", "verify") /\ UNCHANGED <<rtVars, log>>
       ELSE \E o \in Runtime("exec_root") :
              /\ Issued("exec_root", o)
              /\ IF o.resp.threw THEN Reject("docker error", pc)
                                 ELSE Goto("exec_createdb")
  /\ UNCHANGED <<cfgVars, histVars, ext, op, inner, waitVars, seedVars>>

\* _createDatabase, the last step of create
CreateDatabase ==
  /\ pc = "exec_createdb"
  /\ IF ~EnvOk
       THEN Reject("missing env", "verify") /\ UNCHANGED <<rtVars, log>>
       ELSE \E o \in Runtime("exec_createdb") :
              /\ Issued("exec_createdb", o)
              /\ IF o.resp.threw THEN Reject("docker error", pc)
                                 ELSE Resolve("ok")
  /\ UNCHANGED <<cfgVars, histVars, ext, op, inner, waitVars, seedVars>>

\* the files of S in ascending order
RECURSIVE SortedSeq(_)
SortedSeq(S) ==
  IF S = {} THEN <<>>
  ELSE LET m == CHOOSE x \in S : \A y \in S : x <= y
       IN <<m>> \o SortedSeq(S \ {m})

\* the client executions _seedDatabase issues for the resolved paths
SeedExecutions(paths, rejected) ==
  IF ThunksInvoked
    THEN [i \in 1 .. Cardinality(paths) |->
            [cmd |-> "exec_seed", arg |-> SortedSeq(paths)[i],
             threw |-> SortedSeq(paths)[i] \in rejected, raw |-> ""]]
    ELSE <<>>

\* _seedDatabase, the last step of push: findFilePaths answers with any set
\* of paths, some of which the client may reject
SeedDatabase ==
  /\ pc = "seed"
  /\ IF ~EnvOk
       THEN Reject("missing env", "verify") /\ UNCHANGED <<log, seedVars>>
     ELSE IF ~env["PUSH_FILES"]
       THEN /\ Reject(IF svc = "mysql" THEN "push files undefined"
                                       ELSE "TypeError", pc)
            /\ UNCHANGED <<log, seedVars>>
     ELSE \E paths \in SUBSET Files : \E rejected \in SUBSET paths :
            /\ resolved' = paths
            /\ bad' = rejected
            /\ IF ChecksEmpty(svc) /\ paths = {}
                 THEN Reject("no files", pc) /\ UNCHANGED log
                 ELSE /\ log' = log \o SeedExecutions(paths, rejected)
                      /\ IF \E i \in 1 .. Len(SeedExecutions(paths, rejected)) :
                              SeedExecutions(paths, rejected)[i].threw
                           THEN Reject("docker error", pc)
                           ELSE Resolve("ok")
  /\ UNCHANGED <<cfgVars, histVars, rtVars, ext, op, inner, waitVars>>

\* printInfo rejected: awaited by info, execute catches the error; as the
\* code stands nobody does
InfoFails ==
  IF InfoAwaitsPrint
    THEN exitCode' = ExitStatus(TRUE) /\ printed' = "docker error"
    ELSE exitCode' \in UnhandledExit /\ printed' = printed

\* info calls printInfo without awaiting it, so the task of info is
\* already resolved while printInfo runs; an error thrown inside printInfo
\* is left in errAt and reaches nobody.
\* printInfo: verifyEnvironment inside try/catch, then getContainerId
InfoGetId ==
  /\ pc = "info_getId"
  /\ IF ~EnvOk
       THEN /\ pc' = "done"
            /\ missing' = verifyEnvironment(env)
            /\ exitCode' = ExitStatus(FALSE)
            /\ UNCHANGED <<rtVars, log, errAt, result, printed>>
       ELSE \E o \in Runtime("ps_id") :
              /\ Issued("ps_id", o)
              /\ missing' = missing
              /\ IF o.resp.threw
                   THEN /\ pc' = "done"
                        /\ errAt' = pc
                        /\ result' = (IF InfoAwaitsPrint THEN "docker error"
                                                          ELSE result)
                        /\ InfoFails
                   ELSE /\ pc' = "info_isRunning"
                        /\ UNCHANGED <<errAt, result, exitVars>>
  /\ UNCHANGED <<cfgVars, histVars, ext, op, inner, waitVars, seedVars>>

\* printInfo: isContainerRunning, then the status table
InfoIsRunning ==
  /\ pc = "info_isRunning"
  /\ \E o \in Runtime("ps_names") :
       /\ Issued("ps_names", o)
       /\ pc' = "done"
       /\ errAt' = (IF o.resp.threw THEN pc ELSE errAt)
       /\ result' = (IF o.resp.threw /\ InfoAwaitsPrint THEN "docker error"
                                                         ELSE result)
       /\ IF o.resp.threw
            THEN InfoFails
            ELSE exitCode' = ExitStatus(FALSE) /\ printed' = printed
  /\ UNCHANGED <<cfgVars, histVars, ext, op, inner, missing, waitVars, seedVars>>

\* ---------------------------------------------------------- the history
\* the id the operations so far last got from the runtime: the answer of
\* the last existence query or run command that returned
RECURSIVE LastId(_, _)
LastId(l, earlier) ==
  IF l = <<>> THEN earlier
  ELSE IF l[Len(l)].cmd \in {"ps_id", "run"} /\ ~l[Len(l)].threw
    THEN l[Len(l)].raw
  ELSE LastId(SubSeq(l, 1, Len(l) - 1), earlier)

\* the run command of a create returned: the container is allocated
Allocated(l) == \E i \in 1 .. Len(l) : l[i].cmd = "run" /\ ~l[i].threw

\* the container rm command of a remove returned
Removed(l) == \E i \in 1 .. Len(l) : l[i].cmd = "rm" /\ ~l[i].threw

\* the runtime honoured every command of the operation: none failed, start,
\* stop and the removals printed the name, the health command answered ready
Honoured(l) ==
  \A i \in 1 .. Len(l) :
    /\ ~l[i].threw
    /\ l[i].cmd \in {"start", "stop", "rm", "volume_rm"} => l[i].raw = Name
    /\ l[i].cmd = "exec_status" => l[i].raw = ReadyText(svc)

\* nobody else has touched the runtime
Quiet == ext = MaxExternal

\* the lifecycle taken once round
Canon == <<"create", "stop", "start", "remove">>

PartialAfter ==
  IF op = "create" /\ Allocated(log) /\ result # "ok" /\ container # "ABSENT"
    THEN "stuck"
  ELSE IF op = "remove" /\ Removed(log) /\ partial = "stuck" THEN "removed"
  ELSE IF op = "create" /\ result = "ok" THEN "no"
  ELSE partial

StepAfter ==
  IF op = "info" THEN step
  ELSE IF result = "ok" /\ Honoured(log) /\ Quiet /\ op = Canon[(step % 4) + 1]
    THEN (step % 4) + 1
  ELSE 0

LeftoverAfter ==
  \/ leftover
  \/ /\ op = "remove"
     /\ log # <<>>
     /\ log[Len(log)].cmd = "volume_rm"
     /\ log[Len(log)].threw

\* the task settled and the process exits
Finish ==
  /\ pc = "done"
  /\ pc' = "idle"
  /\ op' = "none"
  /\ inner' = "none"
  /\ result' = "pending"
  /\ errAt' = ""
  /\ log' = <<>>
  /\ count' = 0
  /\ attempts' = 0
  /\ sleeps' = 0
  /\ firstReady' = 0
  /\ waited' = "no"
  /\ resolved' = {}
  /\ bad' = {}
  /\ missing' = <<>>
  /\ exitCode' = -1
  /\ printed' = ""
  /\ seen' = LastId(log, seen)
  /\ partial' = PartialAfter
  /\ step' = StepAfter
  /\ leftover' = LeftoverAfter
  /\ UNCHANGED <<cfgVars, rtVars, ext>>

\* ------------------------------------------------------- the environment
\* the database server inside a running container finishes booting
ServiceBoot ==
  /\ svc # "minio"
  /\ container = "RUNNING"
  /\ ~ready
  /\ ready' = TRUE
  /\ UNCHANGED <<cfgVars, histVars, exitVars, container, volume, ext, op,
                 inner, pc, result, errAt, log, waitVars, seedVars, missing>>

\* somebody else stops the container
ExternalStop ==
  /\ ext > 0
  /\ pc # "done"
  /\ container = "RUNNING"
  /\ container' = "STOPPED"
  /\ ready' = FALSE
  /\ ext' = ext - 1
  /\ UNCHANGED <<cfgVars, histVars, exitVars, volume, op, inner, pc, result,
                 errAt, log, waitVars, seedVars, missing>>

\* somebody else removes the container (the named volume stays)
ExternalRemove ==
  /\ ext > 0
  /\ pc # "done"
  /\ container # "ABSENT"
  /\ container' = "ABSENT"
  /\ ready' = FALSE
  /\ ext' = ext - 1
  /\ partial' = (IF partial = "stuck" THEN "no" ELSE partial)
  /\ UNCHANGED <<cfgVars, exitVars, seen, step, leftover, volume, op, inner,
                 pc, result, errAt, log, waitVars, seedVars, missing>>

\* somebody else, for example a second invocation of create that passed its
\* own existence query, runs a container of that name
ExternalRun ==
  /\ ext > 0
  /\ pc # "done"
  /\ container = "ABSENT"
  /\ container' = "RUNNING"
  /\ volume' = TRUE
  /\ ready' = FALSE
  /\ ext' = ext - 1
  /\ UNCHANGED <<cfgVars, histVars, exitVars, op, inner, pc, result, errAt,
                 log, waitVars, seedVars, missing>>

Next ==
  \/ \E o \in Operations : Begin(o)
  \/ GetId
  \/ IsRunning
  \/ Run
  \/ Start
  \/ Stop
  \/ RemoveContainer
  \/ RemoveVolume
  \/ ProbeGetId
  \/ ProbeIsRunning
  \/ ProbeExec
  \/ PrepareRootUser
  \/ CreateDatabase
  \/ SeedDatabase
  \/ InfoGetId
  \/ InfoIsRunning
  \/ Finish
  \/ ServiceBoot
  \/ ExternalStop
  \/ ExternalRemove
  \/ ExternalRun

Spec == Init /\ [][Next]_vars

\* a step of the task of the operation: an executeDocker call that returned
\* and the code that runs until the next one
TaskStep ==
  \/ GetId
  \/ IsRunning
  \/ Run
  \/ Start
  \/ Stop
  \/ RemoveContainer
  \/ RemoveVolume
  \/ ProbeGetId
  \/ ProbeIsRunning
  \/ ProbeExec
  \/ PrepareRootUser
  \/ CreateDatabase
  \/ SeedDatabase
  \/ InfoGetId
  \/ InfoIsRunning

\* no other container around, the port left to its default or not: neither
\* changes which calls an operation makes
FairInit ==
  /\ Init
  /\ ~sibling
  /\ penv["EXPOSED_PORT"]

\* every invocation of the runtime returns or fails, and the event loop then
\* resumes the task that awaits it
FairSpec == FairInit /\ [][Next]_vars /\ WF_vars(TaskStep)

\* ------------------------------------------------- the readiness probe
\* the health command answered by any text a client can print
HealthRuntime ==
  {Same(Threw)} \cup
  (IF container = "RUNNING" THEN {Same(Out(t)) : t \in HealthTexts} ELSE {})

\* _isServiceReady: the health command, whatever the client prints
ProbeExecAny ==
  /\ pc = "probe_exec"
  /\ \E o \in HealthRuntime :
       /\ Issued("exec_status", o)
       /\ IF o.resp.threw
            THEN IF CaughtAsNotReady THEN AttemptReturns(FALSE)
                                     ELSE WaitThrows("docker error")
            ELSE AttemptReturns(IsReadyOutput(svc, o.resp.raw))
  /\ UNCHANGED <<cfgVars, histVars, ext, op, inner, seedVars>>

\* a fully configured MySQL or PostgreSQL instance and nobody else around
ProbeInit ==
  /\ Init
  /\ svc # "minio"
  /\ \A k \in EnvKeys : penv[k]
  /\ ~sibling

\* create with its wait, the client free to print anything
ProbeNext ==
  \/ Begin("create")
  \/ GetId
  \/ Run
  \/ ProbeGetId
  \/ ProbeIsRunning
  \/ ProbeExecAny
  \/ PrepareRootUser
  \/ CreateDatabase
  \/ Finish
  \/ ServiceBoot

ProbeSpec == ProbeInit /\ [][ProbeNext]_vars

\* ------------------------------------------------------ the command line
\* const services = ['minio', 'mysql', 'postgres']
CliServices == {"minio", "mysql", "postgres"}

\* program.commands.map((command) => command._name)
Commands == {"info", "create", "stop", "start", "push", "remove"}

\* Object.keys(aliases), in order
AliasKeys == <<"info", "push">>

\* const aliases = { info: ['config', 'env', 'status'], push: ['seed'] }
Aliases(key) == IF key = "info" THEN {"config", "env", "status"} ELSE {"seed"}

\* what a user may type for one argument
ArgTokens ==
  CliServices \cup Commands \cup Aliases("info") \cup Aliases("push") \cup {"-v"}

\* the arguments after the script name
UserArgs == UNION {[1 .. n -> ArgTokens] : n \in 0 .. MaxArgs}

\* index of the first element of a that is in S, 0 if there is none
FirstOf(a, S) ==
  IF \E i \in 1 .. Len(a) : a[i] \in S
    THEN CHOOSE i \in 1 .. Len(a) :
           a[i] \in S /\ \A j \in 1 .. i - 1 : a[j] \notin S
    ELSE 0

\* order[0]: the first argument that names a service
ServiceAt(a) == FirstOf(a, CliServices)

\* legacyCommand: looked for only if a service was found and no command;
\* the first key of aliases one of whose aliases occurs
LegacyCommand(a) ==
  IF ServiceAt(a) # 0 /\ FirstOf(a, Commands) = 0
    THEN IF FirstOf(a, Aliases(AliasKeys[1])) # 0 THEN AliasKeys[1]
         ELSE IF FirstOf(a, Aliases(AliasKeys[2])) # 0 THEN AliasKeys[2]
         ELSE ""
    ELSE ""

\* order[1]: the first argument that names a command or, failing that, the
\* first alias of the legacy command
CommandAt(a) ==
  IF FirstOf(a, Commands) # 0 THEN FirstOf(a, Commands)
  ELSE IF LegacyCommand(a) # "" THEN FirstOf(a, Aliases(LegacyCommand(a)))
  ELSE 0

\* the condition of the correction
Corrects(a) ==
  /\ ServiceAt(a) # 0
  /\ CommandAt(a) # 0
  /\ (CommandAt(a) > ServiceAt(a) \/ LegacyCommand(a) # "")

\* the correction as it was before it compared the two positions: it swaps
\* whenever a service or a command was found
AutoCorrected_unconditional(a) ==
  IF ServiceAt(a) = 0 /\ FirstOf(a, Commands) = 0 THEN a
  ELSE [i \in 1 .. Len(a) |->
          IF i = ServiceAt(a)
            THEN (IF FirstOf(a, Commands) = 0 THEN "undefined"
                                             ELSE a[FirstOf(a, Commands)])
          ELSE IF i = FirstOf(a, Commands)
            THEN (IF ServiceAt(a) = 0 THEN "undefined" ELSE a[ServiceAt(a)])
          ELSE a[i]]

\* a correction that swaps and keeps the alias as typed
AutoCorrected_swaponly(a) ==
  IF Corrects(a) /\ CommandAt(a) > ServiceAt(a)
    THEN [a EXCEPT ![ServiceAt(a)] = a[CommandAt(a)],
                   ![CommandAt(a)] = a[ServiceAt(a)]]
    ELSE a

\* the rewritten args: service and command swapped when the command comes
\* second, a legacy alias replaced by its command
AutoCorrected(a) ==
  IF ~Corrects(a) THEN a
  ELSE IF CommandAt(a) > ServiceAt(a)
    THEN [a EXCEPT ![ServiceAt(a)] =
                       (IF LegacyCommand(a) # "" THEN LegacyCommand(a)
                                                 ELSE a[CommandAt(a)]),
                   ![CommandAt(a)] = a[ServiceAt(a)]]
  ELSE [a EXCEPT ![CommandAt(a)] = LegacyCommand(a)]

\* the script is started with some arguments; no operation has begun
ArgInit ==
  /\ argv \in {<<"node", "localservice">> \o u : u \in UserArgs}
  /\ args = argv
  /\ warned = FALSE
  /\ pc = "cli"
  /\ svc = "mysql"
  /\ penv = [k \in EnvKeys |-> TRUE]
  /\ env = [k \in EnvKeys |-> Value(k, penv) # "undefined"]
  /\ maxRetries = MaxRetries
  /\ sibling = FALSE
  /\ container = "ABSENT"
  /\ volume = FALSE
  /\ ready = FALSE
  /\ ext = 0
  /\ op = "none"
  /\ inner = "none"
  /\ result = "pending"
  /\ errAt = ""
  /\ log = <<>>
  /\ count = 0
  /\ attempts = 0
  /\ sleeps = 0
  /\ firstReady = 0
  /\ waited = "no"
  /\ resolved = {}
  /\ bad = {}
  /\ missing = <<>>
  /\ exitCode = -1
  /\ printed = ""
  /\ seen = "none"
  /\ partial = "no"
  /\ step = 0
  /\ leftover = FALSE

\* the top level of the script up to program.parse(args)
AutoCorrect ==
  /\ pc = "cli"
  /\ args' = AutoCorrected(args)
  /\ warned' = Corrects(args)
  /\ pc' = "parse"
  /\ UNCHANGED <<svc, env, maxRetries, sibling, penv, argv, histVars,
                 exitVars, rtVars, ext, op, inner, result, errAt, log,
                 waitVars, seedVars, missing>>

ArgNext == AutoCorrect

ArgSpec == ArgInit /\ [][ArgNext]_vars

TypeOK ==
  /\ container \in {"ABSENT", "STOPPED", "RUNNING"}
  /\ count \in 0 .. MaxRetries + 1
  /\ attempts \in 0 .. MaxRetries + 1

\* ------------------------------------------------------ reading the log
Count(cmd) == Cardinality({i \in 1 .. Len(log) : log[i].cmd = cmd})

IsMutating(e) == e.cmd \in {"run", "start", "stop", "rm", "volume_rm"}

\* the mutating commands of the operation, in issue order
Mutations ==
  LET m == SelectSeq(log, IsMutating) IN [i \in 1 .. Len(m) |-> m[i].cmd]

IsPrefix(a, b) == Len(a) <= Len(b) /\ \A i \in 1 .. Len(a) : a[i] = b[i]

\* the list of running names has the configured name on a line of its own
ListsName(raw) == raw \in {Name, "db1-old\ndb1"}

\* the existence query of the operation answered, with an id or without
ObservedId == Len(log) >= 1 /\ ~log[1].threw /\ log[1].raw # ""

ObservedAbsent == Len(log) >= 1 /\ ~log[1].threw /\ log[1].raw = ""

\* the running query of the operation answered
ObservedRunning == Len(log) >= 2 /\ ~log[2].threw /\ ListsName(log[2].raw)

ObservedStopped == Len(log) >= 2 /\ ~log[2].threw /\ ~ListsName(log[2].raw)

\* calls of _isServiceReady that reached the runtime
ProbeCalls ==
  IF op \in {"create", "push"} /\ Count("ps_id") >= 1
    THEN Count("ps_id") - 1
    ELSE 0

\* a health command answered that the service is up
ReadyAt(i) ==
  log[i].cmd = "exec_status" /\ ~log[i].threw /\ log[i].raw = ReadyText(svc)

IsSetup(e) == e.cmd \in {"exec_root", "exec_createdb"}

\* ----------------------------------------------------------------- claims
\* C1: create, whatever the service, invoked while the existence query
\* returns an id fails with 'already exists' having issued nothing but
\* that query: no run, no readiness probe, no setup command.
C1_CreateExistingRejected ==
  (op = "create" /\ ObservedId) =>
    /\ pc = "done"
    /\ result = "already exists"
    /\ Len(log) = 1
    /\ Mutations = <<>>

C1_Witness ==
  /\ op = "create"
  /\ result = "already exists"
  /\ container \in {"STOPPED", "RUNNING"}
  /\ log[1].cmd = "ps_id"

\* C2: MySQL and PostgreSQL create on an absent container issues one run
\* command, issues a setup command only after a readiness probe answered
\* ready, and resolves only after the last setup command completed, with
\* the container running.
C2_CreateOrder ==
  (op = "create" /\ svc # "minio") =>
    /\ Count("run") <= 1
    /\ \A i \in 1 .. Len(log) : IsSetup(log[i]) =>
         \E j \in 1 .. i - 1 : \E k \in 1 .. j - 1 :
           ReadyAt(j) /\ log[k].cmd = "run" /\ ~log[k].threw
    /\ result = "ok" =>
         /\ ObservedAbsent
         /\ Count("run") = 1
         /\ container = "RUNNING"
         /\ log[Len(log)].cmd = "exec_createdb"
         /\ ~log[Len(log)].threw
         /\ Count("exec_createdb") = 1
         /\ Count("exec_root") = (IF svc = "mysql" THEN 1 ELSE 0)
         /\ \A i \in 1 .. Len(log) : IsSetup(log[i]) => ~log[i].threw

C2_Witness ==
  /\ op = "create"
  /\ svc = "mysql"
  /\ result = "ok"
  /\ firstReady = 2

\* C3: when the probe first answers ready on attempt k, with
\* 1 <= k <= maxRetries, the wait returns after exactly k attempts and
\* exactly k-1 sleeps, and no probe follows.
C3_ReadyOnAttemptK ==
  waited = "ok" =>
    /\ firstReady >= 1
    /\ firstReady <= maxRetries
    /\ attempts = firstReady
    /\ ProbeCalls = firstReady
    /\ sleeps = firstReady - 1
    /\ Count("exec_status") <= firstReady
    /\ \E i \in 1 .. Len(log) :
         /\ ReadyAt(i)
         /\ \A j \in 1 .. Len(log) : log[j].cmd = "exec_status" => j <= i

C3_Witness ==
  /\ waited = "ok"
  /\ firstReady = 3
  /\ sleeps = 2

\* C4: when no attempt answers ready the wait makes exactly maxRetries
\* attempts and then fails with the timeout error, which names the
\* *_SERVICE_WAIT_* keys; it never makes more than maxRetries attempts.
TimeoutKeys(s) ==
  IF s = "mysql" THEN "MYSQL_SERVICE_WAIT_*" ELSE "POSTGRES_SERVICE_WAIT_*"

C4_TimeoutAfterMaxRetries ==
  /\ attempts <= maxRetries
  /\ ProbeCalls <= maxRetries
  /\ result = "timeout" =>
       /\ waited = "failed"
       /\ attempts = maxRetries
       /\ ProbeCalls = maxRetries
       /\ sleeps = maxRetries
       /\ firstReady = 0
       /\ \A i \in 1 .. Len(log) : ~ReadyAt(i)
       /\ TimeoutKeys(svc) \in {"MYSQL_SERVICE_WAIT_*", "POSTGRES_SERVICE_WAIT_*"}
  /\ (waited = "failed" /\ errAt = "wait") => result = "timeout"

C4_Witness ==
  /\ result = "timeout"
  /\ maxRetries >= 2
  /\ attempts = maxRetries
  /\ Count("exec_status") >= 1

\* C5 as stated: the wait fails in one way only, by exhausting its
\* maxRetries attempts.
C5_OnlyTimeoutFails ==
  waited = "failed" => (result = "timeout" /\ attempts = maxRetries)

\* C5 amended: a failing health command, and a container seen stopped, are
\* 'not ready yet' and the polling goes on; the wait fails by exhausting its
\* attempts, or at once when an attempt sees the container absent or when an
\* inventory query of an attempt fails.
C5_ProbeFailureTolerated ==
  /\ errAt # "probe_exec"
  /\ waited = "failed" =>
       \/ result = "timeout" /\ errAt = "wait" /\ attempts = maxRetries
       \/ result = "does not exist" /\ errAt = "probe_getId"
            /\ log[Len(log)].cmd = "ps_id" /\ log[Len(log)].raw = ""
       \/ result = "docker error" /\ errAt \in {"probe_getId", "probe_isRunning"}
            /\ log[Len(log)].cmd \in {"ps_id", "ps_names"}
            /\ log[Len(log)].threw
  /\ \A i \in 1 .. Len(log) :
       (log[i].cmd = "exec_status" /\ (log[i].threw \/ ~ReadyAt(i))) =>
         \/ i < Len(log)
         \/ pc = "probe_getId"
         \/ result = "timeout"

C5_Witness ==
  /\ waited = "ok"
  /\ attempts >= 2
  /\ \E i \in 1 .. Len(log) : log[i].cmd = "exec_status" /\ log[i].threw

\* a client execution of file f was issued
Executed(f) ==
  \E i \in 1 .. Len(log) : log[i].cmd = "exec_seed" /\ log[i].arg = f

\* C6 as stated: when MySQL or PostgreSQL push resolves on a non-empty set
\* of resolved seed files, a client execution has been issued for every
\* file and has completed.
C6_EveryFileExecuted ==
  (op = "push" /\ result = "ok" /\ resolved # {}) =>
    \A f \in resolved : Executed(f)

\* C7 as stated: a push whose globs resolve to no file fails with 'no files
\* matched', issues no client execution and never resolves.
C7_EmptySeedSetFails ==
  (op = "push" /\ pc = "done" /\ waited = "ok" /\ env["PUSH_FILES"]
     /\ resolved = {}) =>
    /\ result = "no files"
    /\ Count("exec_seed") = 0

\* C8 as stated: push never resolves while the client rejects the execution
\* of one of the resolved seed files.
C8_FailedFileRejectsPush ==
  (op = "push" /\ result = "ok") => bad = {}

\* C9: remove on a running container issues stop, container rm, volume rm
\* in that order; on a stopped container it issues no stop and container rm
\* before volume rm; after a successful remove the container is absent and
\* its volume gone.
C9_RemoveOrder ==
  op = "remove" =>
    /\ ObservedRunning => IsPrefix(Mutations, <<"stop", "rm", "volume_rm">>)
    /\ ObservedStopped => IsPrefix(Mutations, <<"rm", "volume_rm">>)
    /\ ~(ObservedRunning \/ ObservedStopped) => Mutations = <<>>
    /\ result = "ok" =>
         /\ container = "ABSENT"
         /\ ~volume
         /\ Mutations = (IF ObservedRunning THEN <<"stop", "rm", "volume_rm">>
                                            ELSE <<"rm", "volume_rm">>)

C9_Witness ==
  /\ op = "remove"
  /\ result = "ok"
  /\ ObservedRunning
  /\ Mutations = <<"stop", "rm", "volume_rm">>

\* the last command of the operation
Last == log[Len(log)]

\* C10, the parts that hold as stated: remove on an absent container fails
\* with 'does not exist' and issues no removal; a container rm whose output
\* is not the name fails with 'failed to remove container' and no volume rm
\* is issued; remove resolves only if both removals echoed the name.
C10_Common ==
  /\ ObservedAbsent =>
       (pc = "done" /\ result = "does not exist" /\ Mutations = <<>>)
  /\ \A i \in 1 .. Len(log) :
       (log[i].cmd = "rm" /\ ~log[i].threw /\ log[i].raw # Name) =>
         /\ result = "failed to remove container"
         /\ i = Len(log)
         /\ Count("volume_rm") = 0
  /\ result = "ok" =>
       \A i \in 1 .. Len(log) :
         log[i].cmd \in {"rm", "volume_rm"} =>
           (~log[i].threw /\ log[i].raw = Name)

\* C10 as stated: a volume rm that fails, in whatever way, ends remove with
\* the 'failed to remove volume' error.
C10_VolumeFailureNamed ==
  op = "remove" =>
    /\ C10_Common
    /\ (pc = "done" /\ Len(log) > 0 /\ Last.cmd = "volume_rm"
          /\ (Last.threw \/ Last.raw # Name)) =>
         result = "failed to remove volume"

\* C10 amended: a volume rm whose output is not the name ends remove with
\* 'failed to remove volume'; a removal command that itself errors ends
\* remove with the error of the runtime.
C10_RemoveErrors ==
  op = "remove" =>
    /\ C10_Common
    /\ (pc = "done" /\ Len(log) > 0 /\ Last.cmd = "volume_rm") =>
         /\ (~Last.threw /\ Last.raw # Name) =>
              (result = "failed to remove volume" /\ errAt = "volume_rm")
         /\ Last.threw => (result = "docker error" /\ errAt = "volume_rm")
    /\ (pc = "done" /\ Len(log) > 0 /\ Last.cmd = "rm" /\ Last.threw) =>
         (result = "docker error" /\ errAt = "rm")
    /\ result = "failed to remove volume" => Count("rm") = 1

C10_Witness ==
  /\ op = "remove"
  /\ result = "failed to remove volume"
  /\ container = "ABSENT"

\* a required key has no value
RequiredMissing == \E k \in EnvKeys : Required(k) /\ ~env[k]

\* the start, stop commands of the operation that returned an identifier
Returned(cmd) ==
  {i \in 1 .. Len(log) : log[i].cmd = cmd /\ ~log[i].threw}

\* C11: start fails with 'does not exist' on an absent container and with
\* 'already running' on a running one, issuing no start command; on a
\* stopped container it issues one start command and succeeds only if the
\* returned identifier is the container name, failing with 'failed to
\* start' on any other identifier.
C11_Start ==
  op = "start" =>
    /\ ObservedAbsent =>
         (pc = "done" /\ result = "does not exist" /\ Count("start") = 0)
    /\ ObservedRunning =>
         (pc = "done" /\ result = "already running" /\ Count("start") = 0)
    /\ Count("start") <= 1
    /\ Count("start") = 1 => (ObservedId /\ ObservedStopped /\ pc = "done")
    /\ (ObservedStopped /\ pc = "done") => Count("start") = 1
    /\ \A i \in Returned("start") :
         IF log[i].raw = Name THEN result = "ok"
                              ELSE result = "failed to start"
    /\ result = "ok" =>
         \E i \in Returned("start") : log[i].raw = Name /\ i = Len(log)

C11_Witness ==
  /\ op = "start"
  /\ result = "failed to start"
  /\ ObservedStopped

\* C12: stop fails with 'does not exist' on an absent container and with
\* 'not running' on a stopped one, issuing no stop command; on a running
\* container it issues one stop command and succeeds only if the returned
\* identifier is the container name, failing with 'failed to stop' on any
\* other identifier.
C12_Stop ==
  op = "stop" =>
    /\ ObservedAbsent =>
         (pc = "done" /\ result = "does not exist" /\ Count("stop") = 0)
    /\ ObservedStopped =>
         (pc = "done" /\ result = "not running" /\ Count("stop") = 0)
    /\ Count("stop") <= 1
    /\ Count("stop") = 1 => (ObservedId /\ ObservedRunning /\ pc = "done")
    /\ (ObservedRunning /\ pc = "done") => Count("stop") = 1
    /\ \A i \in Returned("stop") :
         IF log[i].raw = Name THEN result = "ok"
                              ELSE result = "failed to stop"
    /\ result = "ok" =>
         \E i \in Returned("stop") : log[i].raw = Name /\ i = Len(log)

C12_Witness ==
  /\ op = "stop"
  /\ result = "failed to stop"
  /\ ObservedRunning

\* C13: MySQL and PostgreSQL push fails with 'does not exist' on an absent
\* container and with 'not running' on a stopped one; in both cases no
\* readiness probe is made, no glob is resolved and no client execution is
\* issued.
C13_PushPrecondition ==
  (op = "push" /\ svc # "minio") =>
    /\ ObservedAbsent =>
         /\ pc = "done"
         /\ result = "does not exist"
         /\ Len(log) = 1
    /\ ObservedStopped =>
         /\ pc = "done"
         /\ result = "not running"
         /\ Len(log) = 2
    /\ (ObservedAbsent \/ ObservedStopped) =>
         /\ attempts = 0
         /\ waited = "no"
         /\ errAt # "seed"
         /\ resolved = {}
         /\ Count("exec_status") = 0
         /\ Count("exec_seed") = 0

C13_Witness ==
  /\ op = "push"
  /\ svc = "postgres"
  /\ result = "not running"
  /\ container = "STOPPED"

\* the operations whose code begins with await verifyEnvironment(this.env)
Validating ==
  op \in {"create", "start", "stop", "remove"} \/ (op = "push" /\ svc # "minio")

\* C14: with a required key without value, create, start, stop, remove and
\* push end before any side effect: no runtime command at all is issued,
\* neither an inventory query nor a mutating command.
C14_NoCommandWithoutConfig ==
  RequiredMissing =>
    /\ log = <<>>
    /\ attempts = 0
    /\ (Validating /\ pc = "done") =>
         (result = "missing env" /\ errAt = "verify")
    /\ Validating => pc \in {"getId", "done"}

C14_Witness ==
  /\ RequiredMissing
  /\ svc = "minio"
  /\ op = "remove"
  /\ result = "missing env"

\* the elements of a sequence
Range(q) == {q[i] : i \in 1 .. Len(q)}

\* C15: verifyEnvironment fails iff some required key has no value; its one
\* error names every such key, once; a key that is not required never makes
\* it fail; the check changes nothing.
C15_AggregatedMissingKeys ==
  LET expected == {k \in EnvKeys : Required(k) /\ ~env[k]} IN
    /\ result = "missing env" =>
         /\ expected # {}
         /\ Range(missing) = expected
         /\ Len(missing) = Cardinality(expected)
         /\ log = <<>>
    /\ (Validating /\ pc = "done" /\ expected # {}) => result = "missing env"
    /\ expected = {} => (result # "missing env" /\ missing = <<>>)
    /\ (\A k \in EnvKeys : Required(k) => env[k]) => result # "missing env"

C15_Witness ==
  /\ result = "missing env"
  /\ Len(missing) = 2
  /\ ~env["PUSH_FILES"]

\* the operations that change the runtime or the data of the service
Rejecting == {"create", "start", "stop", "remove", "push"}

\* C16 as stated: with a required key without value, every operation other
\* than info, of every service, MinIO push included, is rejected with the
\* missing-keys error.
C16_EveryOperationValidates ==
  (RequiredMissing /\ pc = "done" /\ op \in Rejecting) =>
    (result = "missing env" /\ errAt = "verify")

\* C17 as stated: an inventory query of start, stop, remove or push on
\* which the runtime invocation fails is not propagated: a failed existence
\* query reads as absent ('does not exist'), a failed running query reads
\* as not running.
C17_ProbeFailureAbsorbed ==
  /\ (op \in {"start", "stop", "remove", "push"} /\ Len(log) = 1
        /\ log[1].cmd = "ps_id" /\ log[1].threw) =>
       (pc = "done" /\ result = "does not exist")
  /\ (op \in {"stop", "push"} /\ Len(log) = 2
        /\ log[2].cmd = "ps_names" /\ log[2].threw) =>
       (pc = "done" /\ result = "not running")
  /\ (op = "start" /\ Len(log) >= 2
        /\ log[2].cmd = "ps_names" /\ log[2].threw) =>
       (Len(log) >= 3 /\ log[3].cmd = "start")

\* C18: the running query counts the container as running iff its name is a
\* whole line of the runtime's list: start fails with 'already running' and
\* stop goes on to the stop command exactly then; a list that holds only a
\* longer name beginning with the configured one reads as not running.
C18_ExactNameMatch ==
  (Len(log) >= 2 /\ log[2].cmd = "ps_names" /\ ~log[2].threw) =>
    /\ op = "start" =>
         /\ result = "already running" <=> ListsName(log[2].raw)
         /\ ListsName(log[2].raw) => Mutations = <<>>
    /\ op \in {"stop", "push"} =>
         /\ result = "not running" <=> ~ListsName(log[2].raw)
         /\ ~ListsName(log[2].raw) => Len(log) = 2
    /\ op = "remove" =>
         (Count("stop") > 0 => ListsName(log[2].raw))
    /\ log[2].raw = SiblingName =>
         (result # "already running" /\ Count("stop") = 0)

C18_Witness ==
  /\ op = "stop"
  /\ Len(log) = 2
  /\ ~log[2].threw
  /\ log[2].raw = SiblingName
  /\ result = "not running"

\* C19 as stated: no error leaves info, whatever the configuration and the
\* runtime do; with a required key without value it issues no inventory
\* query; it never issues a mutating command.
C19_InfoNeverFails ==
  op = "info" =>
    /\ errAt = ""
    /\ result = "ok"
    /\ Mutations = <<>>
    /\ RequiredMissing => log = <<>>

\* C20: MinIO push returns false in every container state, having issued no
\* runtime command, and does not reject; MinIO create issues no readiness
\* probe and no setup command: the run command is its last.
C20_MinIO ==
  svc = "minio" =>
    /\ op = "push" =>
         /\ pc = "done"
         /\ result = "false"
         /\ errAt = ""
         /\ log = <<>>
    /\ op = "create" =>
         /\ attempts = 0
         /\ sleeps = 0
         /\ waited = "no"
         /\ \A i \in 1 .. Len(log) : log[i].cmd \in {"ps_id", "run"}
         /\ Count("ps_id") <= 1
         /\ Count("run") = 1 =>
              /\ pc = "done"
              /\ Last.cmd = "run"
              /\ ~Last.threw => result = "ok"

C20_Witness ==
  /\ svc = "minio"
  /\ op = "push"
  /\ container = "RUNNING"
  /\ result = "false"
  /\ log = <<>>

\* C21: nothing an earlier operation learnt is reused.  Every create,
\* start, stop, remove and push puts an existence query of its own before
\* its first mutating command, and what it does next follows the answer of
\* that query alone, whatever earlier operations of the instance saw: after
\* somebody else removed the container a second create is accepted.
C21_NoCache ==
  /\ (op \in Rejecting /\ Mutations # <<>>) =>
       (log[1].cmd = "ps_id" /\ ~log[1].threw /\ ~IsMutating(log[1]))
  /\ (op = "create" /\ ObservedAbsent) => result # "already exists"
  /\ (op = "create" /\ ObservedId) =>
       (result = "already exists" /\ Len(log) = 1)
  /\ (op \in {"start", "stop", "remove", "push"} /\ ObservedAbsent) =>
       (result = "does not exist" /\ Len(log) = 1)
  /\ (op \in {"start", "stop", "remove", "push"} /\ ObservedId
        /\ Len(log) = 1) =>
       (result = "pending" /\ pc = "isRunning")

C21_Witness ==
  /\ seen = "id1"
  /\ op = "create"
  /\ ObservedAbsent
  /\ result = "ok"

C23_ExitStatus ==
  pc = "done" =>
    /\ result \notin {"ok", "false"} => (exitCode = 1 /\ printed = result)
    /\ result \in {"ok", "false"} => (exitCode = 0 /\ printed = "")

\* the exits of create, start, stop, remove and push
C23_ExitOfMutatingOperations ==
  (pc = "done" /\ op \in Rejecting) =>
    /\ result \notin {"ok", "false"} => (exitCode = 1 /\ printed = result)
    /\ result \in {"ok", "false"} => (exitCode = 0 /\ printed = "")

\* the command a legacy alias stands for
Canonical(c) ==
  IF c \in {"config", "env", "status"} THEN "info"
  ELSE IF c = "seed" THEN "push"
  ELSE c

MustSupply == {"CONTAINER_NAME", "IMAGE"}

\* C25 as stated: a value is the environment's when that is non-empty and
\* the default otherwise, and since no required key has a default an
\* operation goes past its validation only if every required key was
\* supplied through the environment.
C25_RequiredHaveNoDefault ==
  /\ \A k \in EnvKeys : penv[k] => env[k]
  /\ (Validating /\ pc = "done" /\ result # "missing env") =>
       \A k \in EnvKeys : Required(k) => penv[k]

\* C25, amended: a value is the environment's when that is non-empty and the
\* default otherwise; an operation is refused iff a required key that has no
\* default is not supplied through the environment, and the error names
\* those keys; a required key that has a default (the exposed port) falls
\* back to it and never causes a refusal.
C25_Precedence ==
  /\ \A k \in EnvKeys : env[k] <=> (penv[k] \/ k = "EXPOSED_PORT")
  /\ (Validating /\ pc = "done") =>
       (result = "missing env" <=> \E k \in MustSupply : ~penv[k])
  /\ result = "missing env" =>
       Range(missing) = {k \in MustSupply : ~penv[k]}

C25_Witness ==
  /\ ~penv["EXPOSED_PORT"]
  /\ penv["CONTAINER_NAME"]
  /\ penv["IMAGE"]
  /\ op = "create"
  /\ result = "ok"

\* the status line of mysqladmin reports an uptime above zero
PositiveUptime(text) == text \in {"Uptime: 5", "Uptime: 5  Threads: 1"}

\* the output of pg_isready holds the marker of a server that accepts
HasAcceptingMarker(text) ==
  text \in {"accepting connections", "/tmp:5432 - accepting connections"}

\* the call of _isServiceReady that issued the last health command
\* returned true
ProbeSaidReady == waited = "ok" /\ firstReady = attempts

\* C26: the MySQL probe returns true iff the health command returned a
\* status line with a positive uptime (uptime 0, no output, a failing
\* command and the PostgreSQL marker all read as not ready); the PostgreSQL
\* probe returns true iff the output of the command holds 'accepting
\* connections' (a MySQL status line does not).
C26_DistinctMarkers ==
  (log # <<>> /\ Last.cmd = "exec_status") =>
    /\ svc = "mysql" =>
         (ProbeSaidReady <=> (~Last.threw /\ PositiveUptime(Last.raw)))
    /\ svc = "postgres" =>
         (ProbeSaidReady <=> (~Last.threw /\ HasAcceptingMarker(Last.raw)))

C26_Witness ==
  /\ svc = "mysql"
  /\ log # <<>>
  /\ Last.cmd = "exec_status"
  /\ Last.raw = "/tmp:5432 - accepting connections"
  /\ ~ProbeSaidReady
  /\ attempts >= 1

\* the setup commands of the operation, in issue order
SetupLog == SelectSeq(log, IsSetup)

\* C27: MySQL create issues its setup commands in the order root-user
\* preparation, database creation; when the root-user command fails create
\* is rejected and the create-database command is never issued; create
\* resolves only after both commands returned.
C27_SetupOrder ==
  (svc = "mysql" /\ op = "create") =>
    /\ IsPrefix([i \in 1 .. Len(SetupLog) |-> SetupLog[i].cmd],
                <<"exec_root", "exec_createdb">>)
    /\ (Len(SetupLog) >= 1 /\ SetupLog[1].threw) =>
         /\ pc = "done"
         /\ result = "docker error"
         /\ errAt = "exec_root"
         /\ Len(SetupLog) = 1
    /\ result = "ok" =>
         /\ Len(SetupLog) = 2
         /\ ~SetupLog[1].threw
         /\ ~SetupLog[2].threw
         /\ waited = "ok"

C27_Witness ==
  /\ svc = "mysql"
  /\ op = "create"
  /\ Len(SetupLog) = 1
  /\ SetupLog[1].cmd = "exec_root"
  /\ SetupLog[1].threw
  /\ result = "docker error"

\* every required key has a value and the wait may make at least one attempt
Configured == ~RequiredMissing /\ (svc # "minio" => maxRetries >= 1)

\* C28: on a runtime that honours every command of the operation, with
\* nobody else touching it and a complete configuration: stop of a running
\* container succeeds and leaves it STOPPED, start of a stopped one succeeds
\* and leaves it RUNNING, remove of an existing one succeeds and leaves
\* neither container nor volume, create on an absent one succeeds and
\* leaves it RUNNING; so create, stop, start, remove taken in a row succeed
\* one after the other and end ABSENT with the volume gone.
C28_RoundTrip ==
  /\ (pc = "done" /\ Quiet /\ Honoured(log) /\ Configured) =>
       /\ (op = "stop" /\ ObservedRunning) =>
            (result = "ok" /\ container = "STOPPED")
       /\ (op = "start" /\ ObservedStopped) =>
            (result = "ok" /\ container = "RUNNING")
       /\ (op = "remove" /\ ObservedId) =>
            (result = "ok" /\ container = "ABSENT" /\ ~volume)
       /\ (op = "create" /\ ObservedAbsent) =>
            (result = "ok" /\ container = "RUNNING")
       /\ (step \in 1 .. 3 /\ op = Canon[step + 1]) => result = "ok"
  /\ (pc = "idle" /\ Quiet) =>
       /\ step \in {1, 3} => container = "RUNNING"
       /\ step = 2 => container = "STOPPED"
       /\ step = 4 => (container = "ABSENT" /\ ~volume)

C28_Witness ==
  /\ step = 3
  /\ op = "remove"
  /\ pc = "done"
  /\ result = "ok"
  /\ Quiet
  /\ svc = "mysql"
  /\ container = "ABSENT"
  /\ ~volume

\* C29 as stated: once a remove has removed the container and failed at its
\* volume rm command, no operation of the tool ever deletes the volume that
\* is left.
C29_LeftoverNeverDeleted == leftover => volume

\* C29, amended: a remove whose volume rm command fails after its container
\* rm leaves the container ABSENT (unless somebody else ran it again
\* meanwhile) and the volume in place; every remove that
\* finds the container absent fails with 'does not exist' and issues no
\* volume rm, whether a volume is left or not; the volume goes only in a
\* remove that has removed a container first, so the leftover is deleted
\* only after a new create.
C29_LeftoverVolume ==
  /\ (op = "remove" /\ log # <<>> /\ Last.cmd = "volume_rm" /\ Last.threw) =>
       /\ pc = "done"
       /\ result = "docker error"
       /\ Quiet => container = "ABSENT"
       /\ volume
  /\ (op = "remove" /\ ObservedAbsent) =>
       /\ result = "does not exist"
       /\ Count("rm") = 0
       /\ Count("volume_rm") = 0
  /\ Count("volume_rm") > 0 =>
       /\ op = "remove"
       /\ Count("rm") = 1
       /\ \E i \in 1 .. Len(log) : log[i].cmd = "rm" /\ Echoed(log[i])

C29_Witness ==
  /\ leftover
  /\ container = "ABSENT"
  /\ volume
  /\ op = "remove"
  /\ result = "does not exist"

\* C30: a remove that saw the container running runs stop from its first
\* statement: a second existence query and a second running query come
\* before the stop command.  When that stop fails (the stop command
\* errors, prints something else than the name, or the container is seen
\* absent or not running at the second queries) remove is rejected with
\* the error of stop and issues neither container rm nor volume rm.
C30_NestedStop ==
  (op = "remove" /\ ObservedRunning) =>
    /\ Len(log) >= 3 => log[3].cmd = "ps_id"
    /\ Len(log) >= 4 => log[4].cmd = "ps_names"
    /\ Len(log) >= 5 => log[5].cmd = "stop"
    /\ (Len(log) >= 3 /\ ~log[3].threw /\ log[3].raw = "") =>
         (pc = "done" /\ result = "does not exist" /\ Len(log) = 3)
    /\ (Len(log) >= 4 /\ ~log[4].threw /\ ~ListsName(log[4].raw)) =>
         (pc = "done" /\ result = "not running" /\ Len(log) = 4)
    /\ (Len(log) >= 5 /\ log[5].threw) =>
         (pc = "done" /\ result = "docker error" /\ Len(log) = 5)
    /\ (Len(log) >= 5 /\ ~log[5].threw /\ log[5].raw # Name) =>
         (pc = "done" /\ result = "failed to stop" /\ Len(log) = 5)
    /\ (\E i \in 3 .. 4 : Len(log) >= i /\ log[i].threw) =>
         (pc = "done" /\ result = "docker error" /\ Count("stop") = 0)
    /\ Count("rm") > 0 =>
         (Len(log) >= 6 /\ ~log[5].threw /\ log[5].raw = Name)
    /\ Count("volume_rm") > 0 => Count("rm") = 1

C30_Witness ==
  /\ op = "remove"
  /\ ObservedRunning
  /\ Len(log) = 4
  /\ result = "not running"
  /\ Mutations = <<>>

\* every running query of the operation directly follows an existence
\* query that returned an id
RunningQueryFollowsId ==
  \A i \in 1 .. Len(log) :
    log[i].cmd = "ps_names" =>
      (i > 1 /\ log[i - 1].cmd = "ps_id" /\ ~log[i - 1].threw
             /\ Truthy(log[i - 1].raw))

\* C31: start, stop, remove and push query existence first and issue the
\* running query only after an existence query that returned an id; when
\* the existence query returns no id the operation fails with 'does not
\* exist' without a running query, and 'not running' or 'already running'
\* is the outcome only of a running query made after an id was returned.
C31_ExistenceBeforeRunning ==
  (op \in {"start", "stop", "remove", "push"}) =>
    /\ Len(log) >= 1 => log[1].cmd = "ps_id"
    /\ RunningQueryFollowsId
    /\ ObservedAbsent =>
         /\ pc = "done"
         /\ result = "does not exist"
         /\ Count("ps_names") = 0
         /\ Len(log) = 1
    /\ result \in {"not running", "already running"} =>
         /\ ObservedId
         /\ log[Len(log)].cmd = "ps_names"
         /\ ~log[Len(log)].threw
    /\ (pc = "done" /\ result = "does not exist") =>
         /\ log[Len(log)].cmd = "ps_id"
         /\ ~log[Len(log)].threw
         /\ log[Len(log)].raw = ""

C31_Witness ==
  /\ op \in {"start", "stop", "remove", "push"}
  /\ ObservedAbsent
  /\ container = "ABSENT"
  /\ result = "does not exist"
  /\ seen = "id1"

\* the index of the first executeDocker call of _waitUntilServiceIsReady:
\* create has issued the existence query and run, push both queries
WaitFrom == 3

\* C32: a probe attempt issues the health command only after, in the same
\* attempt, the existence query returned an id and the running query
\* listed the container; an attempt that sees the container not running
\* issues no health command and counts as not ready; an attempt that sees
\* no id ends the wait and the operation at once with 'does not exist',
\* the retry counter left as it was.
C32_ProbeAttempt ==
  (op \in {"create", "push"} /\ svc # "minio") =>
    /\ \A i \in 1 .. Len(log) :
         log[i].cmd = "exec_status" =>
           /\ i >= WaitFrom + 2
           /\ log[i - 1].cmd = "ps_names"
           /\ ~log[i - 1].threw
           /\ ListsName(log[i - 1].raw)
           /\ log[i - 2].cmd = "ps_id"
           /\ ~log[i - 2].threw
           /\ Truthy(log[i - 2].raw)
    /\ \A i \in WaitFrom .. Len(log) :
         (log[i].cmd = "ps_names" /\ ~log[i].threw /\ ~ListsName(log[i].raw)) =>
           IF i < Len(log)
             THEN log[i + 1].cmd = "ps_id"
             ELSE /\ pc \in {"probe_getId", "done"}
                  /\ pc = "done" => (result = "timeout" /\ count = maxRetries)
                  /\ count >= 1
    /\ \A i \in WaitFrom .. Len(log) :
         (log[i].cmd = "ps_id" /\ ~log[i].threw /\ log[i].raw = "") =>
           /\ i = Len(log)
           /\ pc = "done"
           /\ result = "does not exist"
           /\ waited = "failed"
           /\ count = attempts - 1
           /\ count < maxRetries

C32_Witness ==
  /\ op = "create"
  /\ waited = "failed"
  /\ result = "does not exist"
  /\ attempts = 2
  /\ maxRetries = 3
  /\ Count("exec_status") = 1

\* values of *_SERVICE_WAIT_MAX_RETRIES that are not greater than 0
NonPositive == (0 - MaxRetries) .. 0

\* C33: with maxRetries 0, or any value not greater than 0, the loop of
\* _waitUntilServiceIsReady is not entered: no probe attempt is made and
\* the wait throws the timeout error.  create then fails right after its
\* run command allocated the container, push fails before any seed file is
\* resolved, whether or not the service is ready.
C33_ZeroRetries ==
  /\ \A m \in NonPositive : ~LoopContinues(0, m)
  /\ (maxRetries \in NonPositive /\ op \in {"create", "push"} /\ svc # "minio") =>
       /\ attempts = 0
       /\ sleeps = 0
       /\ ProbeCalls = 0
       /\ Count("exec_status") = 0
       /\ waited # "ok"
       /\ result # "ok"
       /\ (op = "create" /\ Allocated(log)) =>
            /\ pc = "done"
            /\ result = "timeout"
            /\ waited = "failed"
            /\ Len(log) = 2
       /\ (op = "push" /\ ObservedRunning) =>
            /\ pc = "done"
            /\ result = "timeout"
            /\ waited = "failed"
            /\ Len(log) = 2
            /\ resolved = {}
            /\ Count("exec_seed") = 0

C33_Witness ==
  /\ maxRetries = 0
  /\ op = "push"
  /\ ObservedRunning
  /\ container = "RUNNING"
  /\ ready
  /\ result = "timeout"
  /\ partial = "stuck"

\* the state the guards of an operation have established when it issues a
\* mutating command: create has seen no id, start an id that is not
\* running, stop an id that is running; remove issues rm on a container it
\* saw stopped or has stopped, and volume rm after rm printed the name
Precondition(cmd) ==
  CASE cmd = "run" -> container = "ABSENT"
    [] cmd = "start" -> container = "STOPPED"
    [] cmd = "stop" -> container = "RUNNING"
    [] cmd = "rm" -> container = "STOPPED"
    [] cmd = "volume_rm" -> container = "ABSENT"

\* this step issues the command cmd
IssuesNow(cmd) ==
  /\ Len(log') = Len(log) + 1
  /\ log'[Len(log')].cmd = cmd

\* C34: whenever an operation issues a mutating command, the runtime is at
\* that moment in the state the operation requires, whoever has acted on
\* the container since the operation queried it; a create never issues run
\* on a name somebody else has allocated meanwhile.
C34_PreconditionAtIssue ==
  [][\A cmd \in {"run", "start", "stop", "rm", "volume_rm"} :
       IssuesNow(cmd) => Precondition(cmd)]_vars

\* the operation has begun and its task has not settled
Busy == pc \notin {"idle", "done", "cli", "parse"}

\* the most executeDocker calls an operation can make
CommandBound(o) ==
  CASE o \in {"start", "stop"} -> 3
    [] o = "remove" -> 7
    [] o = "info" -> 2
    [] o = "create" -> 2 + 3 * maxRetries + 2
    [] o = "push" -> 2 + 3 * maxRetries + NumFiles
    [] OTHER -> 0

\* the commands outside the readiness probe
Unrepeated ==
  {"run", "start", "stop", "rm", "volume_rm", "exec_root", "exec_createdb"}

C35_Bounded ==
  /\ Len(log) <= CommandBound(op)
  /\ attempts <= maxRetries
  /\ count <= maxRetries
  /\ Count("exec_status") <= maxRetries
  /\ \A cmd \in Unrepeated : Count(cmd) <= 1
  /\ op \notin {"create", "push"} =>
       /\ Count("ps_id") <= (IF op = "remove" THEN 2 ELSE 1)
       /\ Count("ps_names") <= (IF op = "remove" THEN 2 ELSE 1)
       /\ attempts = 0
  /\ op \in {"create", "push"} =>
       /\ Count("ps_id") <= 1 + attempts
       /\ Count("ps_names") <= (IF op = "push" THEN 1 ELSE 0) + attempts

\* C35: as long as every runtime invocation returns or fails, every
\* operation that has begun settles: create and push after at most
\* maxRetries probe attempts, start, stop, remove and info after a fixed
\* number of commands, and no command other than those of the readiness
\* probe is issued twice by one operation.
C35_Terminates == []C35_Bounded /\ (Busy ~> pc = "done")

C35_Witness ==
  /\ pc = "done"
  /\ op = "push"
  /\ maxRetries = MaxRetries
  /\ attempts = maxRetries
  /\ Count("exec_status") = maxRetries
  /\ result = "timeout"
  /\ Len(log) = 2 + 3 * maxRetries

\* the arguments typed are '<command> <service>' with a registered command
CurrentOrder(a) ==
  /\ Len(a) >= 4
  /\ a[3] \in Commands
  /\ a[4] \in CliServices

====
